---- MODULE Spec2Model ----
(***************************************************************************)
(* Model of the kallax Sidecar polling loop (sidecar/src/lib.rs), of the   *)
(* NetworkKeeper it drives, and of the Tracker's PeerAddressBook with its  *)
(* get_peers query handler (tracker/server/.../leafchain/v1.rs).           *)
(***************************************************************************)
EXTENDS Integers, Sequences, FiniteSets, TLC

\* Bound on the number of poll cycles one Sidecar run may start.
MaxCycles == 2

(***************************************************************************)
(* Data                                                                    *)
(***************************************************************************)
None == [some |-> FALSE]

Some(x) == [some |-> TRUE, value |-> x]

BlockchainLayer == {"Rootchain", "Leafchain"}

RootchainId == "rootchain"

LeafchainId == "leafchain"

ChainIds == {RootchainId, LeafchainId}

\* A chain_id no sidecar reports and no chain spec is stored for.
UnknownId == "unknown"

\* The chain_ids a query may ask for.
QueryIds == ChainIds \cup {UnknownId}

\* StatusCode::OK and StatusCode::NOT_FOUND.
StatusOK == 200

StatusNotFound == 404

\* A stored chain spec is a wrapper around its bytes.
ChainSpec(bytes) == [bytes |-> bytes]

\* The rootchain spec loaded at Tracker startup: the bytes of "{}".
RootchainSpec == ChainSpec(<<123, 125>>)

\* The specs that may be stored: "{}" and the empty blob.
ChainSpecs == {RootchainSpec, ChainSpec(<< >>)}

\* A peer address is a wrapper around its textual form.
PeerAddress(s) == [addr |-> s]

P1 == PeerAddress("/ip4/10.0.0.1/tcp/30333")

P2 == PeerAddress("/ip4/10.0.0.2/tcp/30333")

LO == PeerAddress("/ip4/127.0.0.1/tcp/30333")

Peers == {P1, P2, LO}

is_loopback(a) == a = LO

to_string(a) == a.addr

Range(s) == {s[i] : i \in DOMAIN s}

\* Peer lists a node may answer with (order and duplicates as sent by the node).
RawPeerLists == {<< >>, <<P1, P2>>, <<LO, P1, P1>>}

\* Peer sets other sidecars report to the same Tracker.
UpsertInputs == {{P1, P2}, {LO}, {}}

\* Ways one NetworkKeeper.execute() call can end.
ExecuteOutcomes == {"Ok", "ConnectNodeError", "RpcError", "ReportError"}

Configs == [leafchain_endpoint : {None, Some(LeafchainId)}, allow_loopback_ip : BOOLEAN]

VARIABLES
    config,                    \* the Config handed to Sidecar::new
    pc,                        \* position of the sidecar task
    tracker_client,            \* "none" | "connected" | "error"
    rootchain_network_keeper,  \* Option<NetworkKeeper>, None until constructed
    leafchain_network_keeper,  \* Option<NetworkKeeper>
    shutdown_signal,           \* TRUE once the cancellation future has completed
    sleep,                     \* TRUE once the current iteration's sleep has elapsed
    running,                   \* layers whose execute() is in flight
    cycles,                    \* iterations won by the timer
    executes,                  \* [layer -> number of execute() calls started]
    last_result,               \* [layer -> outcome of the latest execute() of that layer]
    at_shutdown,               \* history: snapshot taken when the signal fired
    book,                      \* PeerAddressBook: [chain_id -> set of PeerAddress]
    last_write,                \* history: [chain_id -> Option<peer set of the latest upsert>]
    writes,                    \* history: [chain_id -> set of peer sets ever upserted]
    get_peers_task,            \* the in-flight get_peers request handler
    last_report,               \* history: Option<the latest report the Tracker received>
    node_connection,           \* [layer -> TRUE when the keeper holds a node connection]
    last_poll,                 \* history: [layer -> what the latest execute() of the layer did]
    hung,                      \* TRUE when the execute() call in flight never returns
    list,                      \* ChainSpecStore: chain_id -> ChainSpec, partial
    chain_spec_response        \* the latest get_chain_spec response

sidecar_vars == <<config, pc, tracker_client, rootchain_network_keeper,
                  leafchain_network_keeper, shutdown_signal, sleep, running,
                  cycles, executes, last_result, at_shutdown>>

tracker_vars == <<book, last_write, writes, last_report>>

keeper_vars == <<node_connection, last_poll>>

query_vars == <<list, chain_spec_response>>

vars == <<config, pc, tracker_client, rootchain_network_keeper,
          leafchain_network_keeper, shutdown_signal, sleep, running,
          cycles, executes, last_result, at_shutdown,
          book, last_write, writes, get_peers_task,
          last_report, node_connection, last_poll, hung, list, chain_spec_response>>

(***************************************************************************)
(* PeerAddressBook                                                         *)
(***************************************************************************)
\* Mutation: the new peers are merged into the old entry.
upsert_merge(b, chain_id, peers) ==
    [c \in DOMAIN b \cup {chain_id} |->
        IF c = chain_id
        THEN (IF c \in DOMAIN b THEN b[c] ELSE {}) \cup peers
        ELSE b[c]]

\* The entry of chain_id becomes peers; the other entries stay.
upsert(b, chain_id, peers) ==
    [c \in DOMAIN b \cup {chain_id} |-> IF c = chain_id THEN peers ELSE b[c]]

\* The entry of chain_id, empty when there is none.
fetch_exposed_peers(b, chain_id) == IF chain_id \in DOMAIN b THEN b[chain_id] ELSE {}

\* Mutation: a Leafchain report is added to the entry instead of replacing it.
receive_report_by_layer(b, chain_id, layer, peers) ==
    IF layer = "Leafchain"
    THEN upsert(b, chain_id, fetch_exposed_peers(b, chain_id) \cup peers)
    ELSE upsert(b, chain_id, peers)

\* The report service stores a received report; the layer is a label only.
receive_report(b, chain_id, layer, peers) == upsert(b, chain_id, peers)

\* The registry and its history after one received report.
Write(chain_id, layer, peers) ==
    /\ book' = receive_report(book, chain_id, layer, peers)
    /\ last_write' = [last_write EXCEPT ![chain_id] = Some(peers)]
    /\ writes' = [writes EXCEPT ![chain_id] = @ \cup {peers}]
    /\ last_report' = Some([chain_id |-> chain_id, layer |-> layer, peers |-> peers])

(***************************************************************************)
(* NetworkKeeper                                                           *)
(***************************************************************************)
NetworkKeeper(chain_id, layer, allow_loopback_ip) ==
    [chain_id |-> chain_id, layer |-> layer, allow_loopback_ip |-> allow_loopback_ip]

filter_peers(raw, allow_loopback_ip) ==
    {raw[i] : i \in {j \in DOMAIN raw : allow_loopback_ip \/ ~is_loopback(raw[j])}}

\* What one execute() call did: the peer list it obtained, if any, and the
\* number of connection attempts, peer-list requests and report attempts.
Poll(raw, connect, rpc, reports) ==
    [raw |-> raw, connect |-> connect, rpc |-> rpc, reports |-> reports]

NoPoll == Poll(None, 0, 0, 0)

\* Mutation: an empty filtered set is not worth a report.
execute_skip_empty(keeper, outcome, raw) ==
    LET reuse == node_connection[keeper.layer]
        obtained == outcome \in {"Ok", "ReportError"}
        filtered == filter_peers(raw, keeper.allow_loopback_ip)
    IN  /\ outcome = "ConnectNodeError" => ~reuse
        /\ IF outcome = "ConnectNodeError"
           THEN node_connection' = [node_connection EXCEPT ![keeper.layer] = FALSE]
           ELSE IF outcome = "RpcError"
           THEN \E kept \in BOOLEAN :
                    node_connection' = [node_connection EXCEPT ![keeper.layer] = kept]
           ELSE node_connection' = [node_connection EXCEPT ![keeper.layer] = TRUE]
        /\ last_poll' = [last_poll EXCEPT ![keeper.layer] =
               Poll(IF obtained THEN Some(raw) ELSE None,
                    IF reuse THEN 0 ELSE 1,
                    IF outcome = "ConnectNodeError" THEN 0 ELSE 1,
                    IF obtained /\ filtered # {} THEN 1 ELSE 0)]
        /\ IF outcome = "Ok" /\ filtered # {}
           THEN Write(keeper.chain_id, keeper.layer, filtered)
           ELSE UNCHANGED tracker_vars

\* One execute() call: connect to the node unless a connection is held, ask
\* for its peers, filter them, report them.  The first failing step ends the
\* call with its error; the Tracker stores the report only when all went well.
execute(keeper, outcome, raw) ==
    LET reuse == node_connection[keeper.layer]
        obtained == outcome \in {"Ok", "ReportError"}
        filtered == filter_peers(raw, keeper.allow_loopback_ip)
    IN  /\ outcome = "ConnectNodeError" => ~reuse
        /\ IF outcome = "ConnectNodeError"
           THEN node_connection' = [node_connection EXCEPT ![keeper.layer] = FALSE]
           ELSE IF outcome = "RpcError"
           THEN \E kept \in BOOLEAN :
                    node_connection' = [node_connection EXCEPT ![keeper.layer] = kept]
           ELSE node_connection' = [node_connection EXCEPT ![keeper.layer] = TRUE]
        /\ last_poll' = [last_poll EXCEPT ![keeper.layer] =
               Poll(IF obtained THEN Some(raw) ELSE None,
                    IF reuse THEN 0 ELSE 1,
                    IF outcome = "ConnectNodeError" THEN 0 ELSE 1,
                    IF obtained THEN 1 ELSE 0)]
        /\ IF outcome = "Ok"
           THEN Write(keeper.chain_id, keeper.layer, filtered)
           ELSE UNCHANGED tracker_vars

(***************************************************************************)
(* Sidecar                                                                 *)
(***************************************************************************)
NoShutdown == [fired |-> FALSE, pc |-> "new", cycles |-> 0, sleep |-> FALSE,
               root |-> 0, leaf |-> 0, hung |-> FALSE]

\* No get_chain_spec request answered yet.
NoResponse == [chain_id |-> UnknownId, status |-> 0, content_type |-> "", body |-> << >>,
               seen |-> None]

Init ==
    /\ config \in Configs
    /\ pc = "new"
    /\ tracker_client = "none"
    /\ rootchain_network_keeper = None
    /\ leafchain_network_keeper = None
    /\ shutdown_signal = FALSE
    /\ sleep = FALSE
    /\ running = {}
    /\ cycles = 0
    /\ executes = [l \in BlockchainLayer |-> 0]
    /\ last_result = [l \in BlockchainLayer |-> "none"]
    /\ at_shutdown = NoShutdown
    /\ book = [c \in {} |-> {}]
    /\ last_write = [c \in QueryIds |-> None]
    /\ writes = [c \in QueryIds |-> {}]
    /\ get_peers_task = [pc |-> "idle", chain_id |-> RootchainId, peers |-> {},
                         status |-> 0, body |-> << >>, seen |-> None]
    /\ last_report = None
    /\ node_connection = [l \in BlockchainLayer |-> FALSE]
    /\ last_poll = [l \in BlockchainLayer |-> NoPoll]
    /\ hung = FALSE
    /\ list = [c \in {RootchainId} |-> RootchainSpec]
    /\ chain_spec_response = NoResponse

\* Mutation: a failed connection is ignored and the Sidecar is built anyway.
new_ignoring_connect_error ==
    /\ pc = "new"
    /\ \E connected \in BOOLEAN :
        /\ tracker_client' = IF connected THEN "connected" ELSE "error"
        /\ rootchain_network_keeper' =
               Some(NetworkKeeper(RootchainId, "Rootchain", config.allow_loopback_ip))
        /\ leafchain_network_keeper' =
               IF config.leafchain_endpoint.some
               THEN Some(NetworkKeeper(config.leafchain_endpoint.value, "Leafchain",
                                       config.allow_loopback_ip))
               ELSE None
        /\ pc' = "ready"
    /\ UNCHANGED <<config, shutdown_signal, sleep, running, cycles, executes,
                   last_result, at_shutdown, book, last_write, writes, last_report, get_peers_task, keeper_vars, hung, query_vars>>

\* Mutation: a leafchain keeper is built also when no leafchain endpoint is
\* configured (unwrap_or_default instead of map).
new_default_leafchain ==
    /\ pc = "new"
    /\ \E connected \in BOOLEAN :
        IF connected
        THEN /\ tracker_client' = "connected"
             /\ rootchain_network_keeper' =
                    Some(NetworkKeeper(RootchainId, "Rootchain", config.allow_loopback_ip))
             /\ leafchain_network_keeper' =
                    Some(NetworkKeeper(IF config.leafchain_endpoint.some
                                       THEN config.leafchain_endpoint.value
                                       ELSE LeafchainId,
                                       "Leafchain", config.allow_loopback_ip))
             /\ pc' = "ready"
        ELSE /\ tracker_client' = "error"
             /\ pc' = "failed"
             /\ UNCHANGED <<rootchain_network_keeper, leafchain_network_keeper>>
    /\ UNCHANGED <<config, shutdown_signal, sleep, running, cycles, executes,
                   last_result, at_shutdown, book, last_write, writes, last_report,
                   get_peers_task, keeper_vars, hung, query_vars>>

\* Mutation: the rootchain keeper is built with the leafchain's chain_id.
new_rootchain_with_leafchain_id ==
    /\ pc = "new"
    /\ \E connected \in BOOLEAN :
        IF connected
        THEN /\ tracker_client' = "connected"
             /\ rootchain_network_keeper' =
                    Some(NetworkKeeper(LeafchainId, "Rootchain", config.allow_loopback_ip))
             /\ leafchain_network_keeper' =
                    IF config.leafchain_endpoint.some
                    THEN Some(NetworkKeeper(config.leafchain_endpoint.value, "Leafchain",
                                            config.allow_loopback_ip))
                    ELSE None
             /\ pc' = "ready"
        ELSE /\ tracker_client' = "error"
             /\ pc' = "failed"
             /\ UNCHANGED <<rootchain_network_keeper, leafchain_network_keeper>>
    /\ UNCHANGED <<config, shutdown_signal, sleep, running, cycles, executes,
                   last_result, at_shutdown, book, last_write, writes, last_report,
                   get_peers_task, keeper_vars, hung, query_vars>>

\* Mutation: the rootchain keeper is built with loopback addresses allowed,
\* whatever the configuration says.
new_rootchain_allows_loopback ==
    /\ pc = "new"
    /\ \E connected \in BOOLEAN :
        IF connected
        THEN /\ tracker_client' = "connected"
             /\ rootchain_network_keeper' =
                    Some(NetworkKeeper(RootchainId, "Rootchain", TRUE))
             /\ leafchain_network_keeper' =
                    IF config.leafchain_endpoint.some
                    THEN Some(NetworkKeeper(config.leafchain_endpoint.value, "Leafchain",
                                            config.allow_loopback_ip))
                    ELSE None
             /\ pc' = "ready"
        ELSE /\ tracker_client' = "error"
             /\ pc' = "failed"
             /\ UNCHANGED <<rootchain_network_keeper, leafchain_network_keeper>>
    /\ UNCHANGED <<config, shutdown_signal, sleep, running, cycles, executes,
                   last_result, at_shutdown, book, last_write, writes, last_report,
                   get_peers_task, keeper_vars, hung, query_vars>>

\* Mutation: the leafchain keeper is built with the rootchain's chain_id.
new_leafchain_with_rootchain_id ==
    /\ pc = "new"
    /\ \E connected \in BOOLEAN :
        IF connected
        THEN /\ tracker_client' = "connected"
             /\ rootchain_network_keeper' =
                    Some(NetworkKeeper(RootchainId, "Rootchain", config.allow_loopback_ip))
             /\ leafchain_network_keeper' =
                    IF config.leafchain_endpoint.some
                    THEN Some(NetworkKeeper(RootchainId, "Leafchain",
                                            config.allow_loopback_ip))
                    ELSE None
             /\ pc' = "ready"
        ELSE /\ tracker_client' = "error"
             /\ pc' = "failed"
             /\ UNCHANGED <<rootchain_network_keeper, leafchain_network_keeper>>
    /\ UNCHANGED <<config, shutdown_signal, sleep, running, cycles, executes,
                   last_result, at_shutdown, book, last_write, writes, last_report,
                   get_peers_task, keeper_vars, hung, query_vars>>

\* Sidecar::new: connect to the Tracker, then build the keepers; on Err no
\* Sidecar exists.
new ==
    /\ pc = "new"
    /\ \E connected \in BOOLEAN :
        IF connected
        THEN /\ tracker_client' = "connected"
             /\ rootchain_network_keeper' =
                    Some(NetworkKeeper(RootchainId, "Rootchain", config.allow_loopback_ip))
             /\ leafchain_network_keeper' =
                    IF config.leafchain_endpoint.some
                    THEN Some(NetworkKeeper(config.leafchain_endpoint.value, "Leafchain",
                                            config.allow_loopback_ip))
                    ELSE None
             /\ pc' = "ready"
        ELSE /\ tracker_client' = "error"
             /\ pc' = "failed"
             /\ UNCHANGED <<rootchain_network_keeper, leafchain_network_keeper>>
    /\ UNCHANGED <<config, shutdown_signal, sleep, running, cycles, executes,
                   last_result, at_shutdown, book, last_write, writes, last_report, get_peers_task, keeper_vars, hung, query_vars>>


\* The Right arm of the match: the rootchain keeper's execute() is called.
StartCycle ==
    /\ pc' = "rootchain"
    /\ cycles' = cycles + 1
    /\ running' = running \cup {"Rootchain"}
    /\ executes' = [executes EXCEPT !["Rootchain"] = @ + 1]

\* Mutation: the first poll is made on entry, before any wait.
serve_with_shutdown_poll_first ==
    /\ pc = "ready"
    /\ StartCycle
    /\ UNCHANGED <<config, tracker_client, rootchain_network_keeper,
                   leafchain_network_keeper, shutdown_signal, sleep,
                   last_result, at_shutdown, book, last_write, writes, last_report, get_peers_task, keeper_vars, hung, query_vars>>

\* Entry of serve_with_shutdown up to the first select.
serve_with_shutdown ==
    /\ pc = "ready"
    /\ pc' = "select"
    /\ sleep' = FALSE
    /\ UNCHANGED <<config, tracker_client, rootchain_network_keeper,
                   leafchain_network_keeper, shutdown_signal, running, cycles,
                   executes, last_result, at_shutdown, book, last_write, writes, last_report,
                   get_peers_task, keeper_vars, hung, query_vars>>

\* Mutation: the loop logs the shutdown and goes on waiting.
select_left_continue ==
    /\ pc = "select"
    /\ shutdown_signal
    /\ pc' = "select"
    /\ sleep' = FALSE
    /\ UNCHANGED <<config, tracker_client, rootchain_network_keeper,
                   leafchain_network_keeper, shutdown_signal, running, cycles,
                   executes, last_result, at_shutdown, book, last_write, writes, last_report,
                   get_peers_task, keeper_vars, hung, query_vars>>

\* select resolves to Either::Left: the shutdown future is polled first and
\* is ready; the loop is left.
select_left ==
    /\ pc = "select"
    /\ shutdown_signal
    /\ pc' = "done"
    /\ UNCHANGED <<config, tracker_client, rootchain_network_keeper,
                   leafchain_network_keeper, shutdown_signal, sleep, running, cycles,
                   executes, last_result, at_shutdown, book, last_write, writes, last_report,
                   get_peers_task, keeper_vars, hung, query_vars>>

\* Mutation: the sleep is polled first, so an elapsed timer wins over a
\* completed shutdown future.
select_right_timer_first ==
    /\ pc = "select"
    /\ sleep
    /\ cycles < MaxCycles
    /\ StartCycle
    /\ UNCHANGED <<config, tracker_client, rootchain_network_keeper,
                   leafchain_network_keeper, shutdown_signal, sleep,
                   last_result, at_shutdown, book, last_write, writes, last_report, get_peers_task, keeper_vars, hung, query_vars>>

\* Mutation: both keepers are started together (join) instead of in sequence.
select_right_join ==
    /\ pc = "select"
    /\ ~shutdown_signal
    /\ sleep
    /\ cycles < MaxCycles
    /\ pc' = "rootchain"
    /\ cycles' = cycles + 1
    /\ running' = running \cup {"Rootchain"} \cup
                  (IF leafchain_network_keeper.some THEN {"Leafchain"} ELSE {})
    /\ executes' = [executes EXCEPT !["Rootchain"] = @ + 1]
    /\ UNCHANGED <<config, tracker_client, rootchain_network_keeper,
                   leafchain_network_keeper, shutdown_signal, sleep,
                   last_result, at_shutdown, book, last_write, writes, last_report, get_peers_task, keeper_vars, hung, query_vars>>

\* select resolves to Either::Right: the shutdown future was pending and the
\* sleep has elapsed.  One poll of the select (shutdown first, then sleep) is
\* one step: a signal firing between the two polls is ordered after the step.
select_right ==
    /\ pc = "select"
    /\ ~shutdown_signal
    /\ sleep
    /\ cycles < MaxCycles
    /\ StartCycle
    /\ UNCHANGED <<config, tracker_client, rootchain_network_keeper,
                   leafchain_network_keeper, shutdown_signal, sleep,
                   last_result, at_shutdown, book, last_write, writes, last_report, get_peers_task, keeper_vars, hung, query_vars>>

\* What follows the return of the rootchain keeper's execute().
AfterRootchain ==
    IF leafchain_network_keeper.some
    THEN /\ pc' = "leafchain"
         /\ running' = (running \ {"Rootchain"}) \cup {"Leafchain"}
         /\ executes' = [executes EXCEPT !["Leafchain"] = @ + 1]
         /\ UNCHANGED sleep
    ELSE /\ pc' = "select"
         /\ running' = running \ {"Rootchain"}
         /\ sleep' = FALSE
         /\ UNCHANGED executes

\* Mutation: a rootchain error is propagated with `?` and ends the loop.
rootchain_execute_propagate ==
    /\ pc = "rootchain"
    /\ ~hung
    /\ \E outcome \in ExecuteOutcomes, raw \in RawPeerLists :
        /\ execute(rootchain_network_keeper.value, outcome, raw)
        /\ last_result' = [last_result EXCEPT !["Rootchain"] = outcome]
        /\ IF outcome = "Ok"
           THEN AfterRootchain
           ELSE /\ pc' = "done"
                /\ running' = running \ {"Rootchain"}
                /\ UNCHANGED <<sleep, executes>>
    /\ UNCHANGED <<config, tracker_client, rootchain_network_keeper,
                   leafchain_network_keeper, shutdown_signal, cycles,
                   at_shutdown, get_peers_task, hung, query_vars>>

\* Mutation: a rootchain error skips the rest of the cycle (`continue`).
rootchain_execute_skip_leafchain ==
    /\ pc = "rootchain"
    /\ ~hung
    /\ \E outcome \in ExecuteOutcomes, raw \in RawPeerLists :
        /\ execute(rootchain_network_keeper.value, outcome, raw)
        /\ last_result' = [last_result EXCEPT !["Rootchain"] = outcome]
        /\ IF outcome = "Ok"
           THEN AfterRootchain
           ELSE /\ pc' = "select"
                /\ running' = running \ {"Rootchain"}
                /\ sleep' = FALSE
                /\ UNCHANGED executes
    /\ UNCHANGED <<config, tracker_client, rootchain_network_keeper,
                   leafchain_network_keeper, shutdown_signal, cycles,
                   at_shutdown, get_peers_task, hung, query_vars>>

\* Mutation: a shutdown that fired during the rootchain poll ends the cycle.
rootchain_execute_check_shutdown ==
    /\ pc = "rootchain"
    /\ ~hung
    /\ \E outcome \in ExecuteOutcomes, raw \in RawPeerLists :
        /\ execute(rootchain_network_keeper.value, outcome, raw)
        /\ last_result' = [last_result EXCEPT !["Rootchain"] = outcome]
        /\ IF shutdown_signal
           THEN /\ pc' = "select"
                /\ running' = running \ {"Rootchain"}
                /\ sleep' = FALSE
                /\ UNCHANGED executes
           ELSE AfterRootchain
    /\ UNCHANGED <<config, tracker_client, rootchain_network_keeper,
                   leafchain_network_keeper, shutdown_signal, cycles,
                   at_shutdown, get_peers_task, hung, query_vars>>

\* Mutation: the rootchain poll is bounded by a timeout, so that a call that
\* would never return ends with an error.
rootchain_execute_timeout ==
    /\ pc = "rootchain"
    /\ \E outcome \in (IF hung THEN {"RpcError"} ELSE ExecuteOutcomes), raw \in RawPeerLists :
        /\ execute(rootchain_network_keeper.value, outcome, raw)
        /\ last_result' = [last_result EXCEPT !["Rootchain"] = outcome]
    /\ hung' = FALSE
    /\ AfterRootchain
    /\ UNCHANGED <<config, tracker_client, rootchain_network_keeper,
                   leafchain_network_keeper, shutdown_signal, cycles,
                   at_shutdown, get_peers_task, query_vars>>

\* Mutation: a failed rootchain poll is repeated at once, within the cycle.
rootchain_execute_retry ==
    /\ pc = "rootchain"
    /\ ~hung
    /\ \E outcome \in ExecuteOutcomes, raw \in RawPeerLists :
        /\ execute(rootchain_network_keeper.value, outcome, raw)
        /\ last_result' = [last_result EXCEPT !["Rootchain"] = outcome]
        /\ IF outcome = "Ok"
           THEN AfterRootchain
           ELSE /\ pc' = "rootchain"
                /\ executes' = [executes EXCEPT !["Rootchain"] = @ + 1]
                /\ UNCHANGED <<running, sleep>>
    /\ UNCHANGED <<config, tracker_client, rootchain_network_keeper,
                   leafchain_network_keeper, shutdown_signal, cycles,
                   at_shutdown, get_peers_task, hung, query_vars>>

\* rootchain_network_keeper.execute() returns; an Err is logged and dropped;
\* then the leafchain keeper, if there is one, is called.
rootchain_execute ==
    /\ pc = "rootchain"
    /\ ~hung
    /\ \E outcome \in ExecuteOutcomes, raw \in RawPeerLists :
        /\ execute(rootchain_network_keeper.value, outcome, raw)
        /\ last_result' = [last_result EXCEPT !["Rootchain"] = outcome]
    /\ AfterRootchain
    /\ UNCHANGED <<config, tracker_client, rootchain_network_keeper,
                   leafchain_network_keeper, shutdown_signal, cycles,
                   at_shutdown, get_peers_task, hung, query_vars>>

\* leafchain_network_keeper.execute() returns; an Err is logged and dropped;
\* the loop goes back to a fresh select with a fresh sleep.
leafchain_execute ==
    /\ pc = "leafchain"
    /\ ~hung
    /\ \E outcome \in ExecuteOutcomes, raw \in RawPeerLists :
        /\ execute(leafchain_network_keeper.value, outcome, raw)
        /\ last_result' = [last_result EXCEPT !["Leafchain"] = outcome]
    /\ pc' = "select"
    /\ running' = running \ {"Leafchain"}
    /\ sleep' = FALSE
    /\ UNCHANGED <<config, tracker_client, rootchain_network_keeper,
                   leafchain_network_keeper, shutdown_signal, cycles, executes,
                   at_shutdown, get_peers_task, hung, query_vars>>

(***************************************************************************)
(* Environment of the Sidecar                                              *)
(***************************************************************************)
\* The one-shot cancellation future completes.
shutdown ==
    /\ ~shutdown_signal
    /\ shutdown_signal' = TRUE
    /\ at_shutdown' = [fired |-> TRUE, pc |-> pc, cycles |-> cycles, sleep |-> sleep,
                       root |-> executes["Rootchain"], leaf |-> executes["Leafchain"],
                       hung |-> hung]
    /\ UNCHANGED <<config, pc, tracker_client, rootchain_network_keeper,
                   leafchain_network_keeper, sleep, running, cycles, executes,
                   last_result, book, last_write, writes, last_report, get_peers_task, keeper_vars, hung, query_vars>>

\* polling_interval elapses for the sleep of the current iteration.
sleep_elapse ==
    /\ pc = "select"
    /\ ~sleep
    /\ sleep' = TRUE
    /\ UNCHANGED <<config, pc, tracker_client, rootchain_network_keeper,
                   leafchain_network_keeper, shutdown_signal, running, cycles,
                   executes, last_result, at_shutdown, book, last_write, writes, last_report,
                   get_peers_task, keeper_vars, hung, query_vars>>

\* The node or the Tracker never answers the execute() call in flight.
execute_hang ==
    /\ pc \in {"rootchain", "leafchain"}
    /\ ~hung
    /\ hung' = TRUE
    /\ UNCHANGED <<config, pc, tracker_client, rootchain_network_keeper,
                   leafchain_network_keeper, shutdown_signal, sleep, running, cycles,
                   executes, last_result, at_shutdown, book, last_write, writes,
                   last_report, get_peers_task, keeper_vars, query_vars>>

(***************************************************************************)
(* Tracker: report service and query API                                   *)
(***************************************************************************)
\* The sequences that list the elements of S once each, in any order.
Orderings(S) == {s \in [1..Cardinality(S) -> S] : Range(s) = S}

\* A report of another sidecar is received: it is stored with upsert,
\* whatever its layer.
report ==
    /\ \E chain_id \in ChainIds, layer \in BlockchainLayer, peers \in UpsertInputs :
        Write(chain_id, layer, peers)
    /\ UNCHANGED <<config, pc, tracker_client, rootchain_network_keeper,
                   leafchain_network_keeper, shutdown_signal, sleep, running,
                   cycles, executes, last_result, at_shutdown, get_peers_task,
                   keeper_vars, hung, query_vars>>

\* What the node of another sidecar, one that allows loopback addresses,
\* exposes: this Sidecar never reports such a set when it filters them out.
OtherSidecarPeers == {{LO}}

\* A report of another sidecar is received while this Sidecar runs: it may be
\* for either chain and carry either layer.
other_sidecar_report ==
    /\ \E chain_id \in ChainIds, layer \in BlockchainLayer, peers \in OtherSidecarPeers :
        Write(chain_id, layer, peers)
    /\ UNCHANGED <<config, pc, tracker_client, rootchain_network_keeper,
                   leafchain_network_keeper, shutdown_signal, sleep, running,
                   cycles, executes, last_result, at_shutdown, get_peers_task,
                   keeper_vars, hung, query_vars>>

\* Mutation: the lookup creates an empty entry for a chain_id that has none
\* (entry(chain_id).or_default()).
get_peers_fetch_or_default ==
    /\ get_peers_task.pc \in {"idle", "responded"}
    /\ \E chain_id \in QueryIds :
        /\ get_peers_task' = [pc |-> "fetched", chain_id |-> chain_id,
                              peers |-> fetch_exposed_peers(book, chain_id),
                              status |-> 0, body |-> << >>,
                              seen |-> last_write[chain_id]]
        /\ book' = IF chain_id \in DOMAIN book THEN book ELSE upsert(book, chain_id, {})
    /\ UNCHANGED <<config, pc, tracker_client, rootchain_network_keeper,
                   leafchain_network_keeper, shutdown_signal, sleep, running,
                   cycles, executes, last_result, at_shutdown, last_write, writes,
                   last_report, keeper_vars, hung, query_vars>>

\* get_peers up to the completion of book.fetch_exposed_peers(chain_id).await
get_peers_fetch ==
    /\ get_peers_task.pc \in {"idle", "responded"}
    /\ \E chain_id \in QueryIds :
        get_peers_task' = [pc |-> "fetched", chain_id |-> chain_id,
                           peers |-> fetch_exposed_peers(book, chain_id),
                           status |-> 0, body |-> << >>,
                           seen |-> last_write[chain_id]]
    /\ UNCHANGED <<config, pc, tracker_client, rootchain_network_keeper,
                   leafchain_network_keeper, shutdown_signal, sleep, running,
                   cycles, executes, last_result, at_shutdown, book, last_write, writes,
                   last_report, keeper_vars, hung, query_vars>>

\* Mutation: the handler answers with the registry as it is when the answer
\* is built, read address by address over all chains.
get_peers_respond_all_chains ==
    /\ get_peers_task.pc = "fetched"
    /\ \E body \in Orderings({to_string(a) : a \in UNION {book[c] : c \in DOMAIN book}}) :
        get_peers_task' = [get_peers_task EXCEPT !.pc = "responded", !.status = StatusOK,
                                                 !.body = body]
    /\ UNCHANGED <<config, pc, tracker_client, rootchain_network_keeper,
                   leafchain_network_keeper, shutdown_signal, sleep, running,
                   cycles, executes, last_result, at_shutdown, book, last_write, writes,
                   last_report, keeper_vars, hung, query_vars>>

\* Mutation: an empty peer list is answered as not found.
get_peers_respond_not_found_on_empty ==
    /\ get_peers_task.pc = "fetched"
    /\ \E body \in Orderings({to_string(a) : a \in get_peers_task.peers}) :
        get_peers_task' = [get_peers_task EXCEPT
                              !.pc = "responded",
                              !.status = IF body = << >> THEN StatusNotFound ELSE StatusOK,
                              !.body = body]
    /\ UNCHANGED <<config, pc, tracker_client, rootchain_network_keeper,
                   leafchain_network_keeper, shutdown_signal, sleep, running,
                   cycles, executes, last_result, at_shutdown, book, last_write, writes,
                   last_report, keeper_vars, hung, query_vars>>

\* get_peers from the fetched peers to the response (StatusCode::OK, Json(..)):
\* every address is turned into its string; the collection's order is its own.
get_peers_respond ==
    /\ get_peers_task.pc = "fetched"
    /\ \E body \in Orderings({to_string(a) : a \in get_peers_task.peers}) :
        get_peers_task' = [get_peers_task EXCEPT !.pc = "responded", !.status = StatusOK,
                                                 !.body = body]
    /\ UNCHANGED <<config, pc, tracker_client, rootchain_network_keeper,
                   leafchain_network_keeper, shutdown_signal, sleep, running,
                   cycles, executes, last_result, at_shutdown, book, last_write, writes,
                   last_report, keeper_vars, hung, query_vars>>

\* ChainSpecStore lookup: the stored spec, or absent.
get(l, chain_id) == IF chain_id \in DOMAIN l THEN Some(l[chain_id]) ELSE None

\* GetChainSpecError::into_response; NotFound is the only variant.
into_response(err) ==
    [status |-> StatusNotFound, content_type |-> "", body |-> << >>]

\* A chain spec is registered for a chain_id that has none yet.
insert_chain_spec ==
    /\ \E chain_id \in ChainIds \ DOMAIN list, spec \in ChainSpecs :
        list' = [c \in DOMAIN list \cup {chain_id} |->
                    IF c = chain_id THEN spec ELSE list[c]]
    /\ UNCHANGED <<sidecar_vars, tracker_vars, keeper_vars, hung, get_peers_task,
                   chain_spec_response>>

\* Mutation: a missing spec is answered with 200 and an empty body
\* (unwrap_or_default instead of map_or(Err(NotFound), ..)).
get_chain_spec_default_on_miss ==
    /\ \E chain_id \in QueryIds :
        LET found == get(list, chain_id)
        IN  chain_spec_response' =
                [chain_id |-> chain_id, status |-> StatusOK,
                 content_type |-> "application/json",
                 body |-> IF found.some THEN found.value.bytes ELSE << >>,
                 seen |-> found]
    /\ UNCHANGED <<sidecar_vars, tracker_vars, keeper_vars, hung, get_peers_task, list>>

\* get_chain_spec: Ok((OK, json, bytes)) when the store holds a spec,
\* Err(NotFound) turned into its response otherwise.
get_chain_spec ==
    /\ \E chain_id \in QueryIds :
        LET found == get(list, chain_id)
            answer == IF found.some
                      THEN [status |-> StatusOK, content_type |-> "application/json",
                            body |-> found.value.bytes]
                      ELSE into_response("NotFound")
        IN  chain_spec_response' = [chain_id |-> chain_id, status |-> answer.status,
                                    content_type |-> answer.content_type,
                                    body |-> answer.body, seen |-> found]
    /\ UNCHANGED <<sidecar_vars, tracker_vars, keeper_vars, hung, get_peers_task, list>>

(***************************************************************************)
(* Specifications                                                          *)
(***************************************************************************)
\* One Sidecar process against its Tracker.
Next ==
    \/ new
    \/ serve_with_shutdown
    \/ select_left
    \/ select_right
    \/ rootchain_execute
    \/ leafchain_execute
    \/ shutdown
    \/ sleep_elapse

Spec == Init /\ [][Next]_vars

\* The scheduler runs a task whose select is ready, and every execute() call
\* returns.
FairSpec ==
    /\ Spec
    /\ WF_vars(serve_with_shutdown)
    /\ WF_vars(select_left)
    /\ WF_vars(rootchain_execute)
    /\ WF_vars(leafchain_execute)

\* One Sidecar process whose node or Tracker may stop answering.
HangNext ==
    \/ Next
    \/ execute_hang

HangSpec == Init /\ [][HangNext]_vars

\* The Tracker under concurrent reports of many sidecars and concurrent
\* get_peers requests.
TrackerNext ==
    \/ report
    \/ get_peers_fetch
    \/ get_peers_respond
    \/ insert_chain_spec
    \/ get_chain_spec

\* The Tracker does not depend on the configuration of any one Sidecar.
TrackerInit ==
    /\ Init
    /\ config = [leafchain_endpoint |-> None, allow_loopback_ip |-> FALSE]

TrackerSpec == TrackerInit /\ [][TrackerNext]_vars

\* One Sidecar with both keepers, reporting to a Tracker that other sidecars
\* report to as well.
WritersNext ==
    \/ Next
    \/ other_sidecar_report

WritersInit ==
    /\ Init
    /\ config = [leafchain_endpoint |-> Some(LeafchainId), allow_loopback_ip |-> FALSE]

WritersSpec == WritersInit /\ [][WritersNext]_vars

(***************************************************************************)
(* Properties of the Sidecar loop                                          *)
(***************************************************************************)
Errors == ExecuteOutcomes \ {"Ok"}

ServePcs == {"ready", "select", "rootchain", "leafchain"}

NoExecutes == [l \in BlockchainLayer |-> 0]

\* C1: no outcome of a keeper's execute() makes the loop exit; the loop is
\* left only by a step taken at the select with the shutdown signal fired.
C1_OnlyShutdownEndsLoop ==
    [][(pc # "done" /\ pc' = "done") => (pc = "select" /\ shutdown_signal)]_vars

\* The loop has ended after both keepers returned errors.
C1_Witness ==
    /\ pc = "done"
    /\ last_result["Rootchain"] \in Errors
    /\ last_result["Leafchain"] \in Errors

\* C2: with a leafchain keeper, a rootchain execute() that returns an error is
\* followed, in the same cycle, by the call of the leafchain execute().
C2_RootchainErrorKeepsLeafchain ==
    [][(/\ pc = "rootchain"
        /\ pc' # "rootchain"
        /\ leafchain_network_keeper.some
        /\ last_result'["Rootchain"] \in Errors)
       => (/\ pc' = "leafchain"
           /\ cycles' = cycles
           /\ "Leafchain" \in running'
           /\ executes'["Leafchain"] = executes["Leafchain"] + 1)]_vars

\* The leafchain call is in flight right after a failed rootchain call.
C2_Witness ==
    /\ pc = "leafchain"
    /\ last_result["Rootchain"] = "RpcError"
    /\ executes["Leafchain"] = cycles

ShutdownBeforeFirstTick ==
    /\ at_shutdown.fired
    /\ at_shutdown.cycles = 0
    /\ ~at_shutdown.sleep

\* C3: when the shutdown signal fires before the first sleep elapses, no
\* execute() call is ever made and serve_with_shutdown returns.
C3_ShutdownBeforeFirstTick ==
    /\ [](ShutdownBeforeFirstTick => executes = NoExecutes)
    /\ ((ShutdownBeforeFirstTick /\ pc \in ServePcs) ~> (pc = "done" /\ executes = NoExecutes))

\* The loop has returned without a call although the sleep elapsed after the
\* signal had fired.
C3_Witness ==
    /\ pc = "done"
    /\ ShutdownBeforeFirstTick
    /\ sleep
    /\ executes = NoExecutes

\* C4: a select resolved with the shutdown signal fired, and every step after
\* the loop was left, starts no poll cycle and calls no execute().
C4_NoCycleOnceShutdownObserved ==
    [][((pc = "select" /\ shutdown_signal) \/ pc = "done")
       => (/\ executes' = executes
           /\ cycles' = cycles
           /\ running' = {}
           /\ pc' \in {"select", "done"})]_vars

\* The loop was left at a select where the sleep had elapsed as well.
C4_Witness ==
    /\ pc = "done"
    /\ sleep
    /\ at_shutdown.pc = "select"
    /\ at_shutdown.sleep

\* C5: a started cycle makes the rootchain call and then, when configured, the
\* leafchain call, whether or not the shutdown signal has fired meanwhile; the
\* loop is left from the select only.
C5_CycleRunsToCompletion ==
    [][/\ (pc = "rootchain" /\ pc' # "rootchain")
          => IF leafchain_network_keeper.some
             THEN pc' = "leafchain" /\ executes'["Leafchain"] = executes["Leafchain"] + 1
             ELSE pc' = "select" /\ executes' = executes
       /\ (pc = "leafchain" /\ pc' # "leafchain") => pc' = "select"
       /\ (pc \in {"rootchain", "leafchain"}) => pc' # "done"]_vars

\* The signal fired during the rootchain call and the leafchain call was
\* still made.
C5_Witness ==
    /\ at_shutdown.fired
    /\ at_shutdown.pc = "rootchain"
    /\ pc = "leafchain"
    /\ executes["Leafchain"] = at_shutdown.leaf + 1

\* C6: once the signal has fired, serve_with_shutdown returns (every execute()
\* call returning), no further cycle is started, and the only call made after
\* the firing is the leafchain call of a cycle whose rootchain call was in
\* flight.
C6_ShutdownWithinOneCycle ==
    /\ [](at_shutdown.fired =>
            /\ cycles = at_shutdown.cycles
            /\ executes["Rootchain"] = at_shutdown.root
            /\ executes["Leafchain"] <= at_shutdown.leaf +
                   (IF at_shutdown.pc = "rootchain" /\ leafchain_network_keeper.some
                    THEN 1 ELSE 0))
    /\ ((shutdown_signal /\ pc \in ServePcs) ~> pc = "done")

\* The loop has returned after finishing the cycle the signal fell into.
C6_Witness ==
    /\ pc = "done"
    /\ at_shutdown.pc = "rootchain"
    /\ executes["Leafchain"] = at_shutdown.leaf + 1

\* C7: at most one execute() call is in flight; during the rootchain call it
\* is the rootchain keeper's, during the leafchain call the leafchain
\* keeper's, and none is in flight while the loop waits.
C7_KeeperCallsNeverOverlap ==
    /\ Cardinality(running) <= 1
    /\ pc = "rootchain" => running = {"Rootchain"}
    /\ pc = "leafchain" => running = {"Leafchain"}
    /\ pc \notin {"rootchain", "leafchain"} => running = {}

\* The second cycle's leafchain call is in flight alone.
C7_Witness ==
    /\ pc = "leafchain"
    /\ cycles = 2
    /\ running = {"Leafchain"}

\* C8: Sidecar::new fails exactly when connecting to the Tracker fails, and
\* then no keeper exists, no execute() is called and no report is made.
C8_ConnectFailureIsFatal ==
    /\ tracker_client = "error" =>
          /\ pc = "failed"
          /\ rootchain_network_keeper = None
          /\ leafchain_network_keeper = None
          /\ executes = NoExecutes
          /\ cycles = 0
          /\ \A c \in ChainIds : writes[c] = {}
    /\ pc = "failed" => tracker_client = "error"
    /\ tracker_client = "connected" => rootchain_network_keeper.some

\* Construction failed for a configuration with a leafchain, and the
\* environment went on (the signal fired afterwards).
C8_Witness ==
    /\ pc = "failed"
    /\ config.leafchain_endpoint.some
    /\ at_shutdown.fired
    /\ at_shutdown.pc = "failed"

(***************************************************************************)
(* Properties of the PeerAddressBook                                       *)
(***************************************************************************)
Strings(peers) == {to_string(a) : a \in peers}

\* C9: fetch(chain_id) is exactly the peer set of the latest upsert for
\* chain_id, and empty when there was none.
C9_UpsertReplacesEntry ==
    \A c \in QueryIds :
        fetch_exposed_peers(book, c) = IF last_write[c].some THEN last_write[c].value ELSE {}

\* upsert(X, {P1, P2}) then upsert(X, {LO}), and a fetch of X returned {LO}.
C9_Witness ==
    /\ get_peers_task.pc = "fetched"
    /\ get_peers_task.peers = {LO}
    /\ {P1, P2} \in writes[get_peers_task.chain_id]
    /\ last_write[get_peers_task.chain_id] = Some({LO})

\* C10: what a get_peers request fetched and answers is empty or the whole
\* peer set of one single upsert for the requested chain_id.
C10_ReadersSeeOneCompleteWrite ==
    /\ get_peers_task.pc \in {"fetched", "responded"} =>
          get_peers_task.peers \in writes[get_peers_task.chain_id] \cup {{}}
    /\ get_peers_task.pc = "responded" =>
          /\ Len(get_peers_task.body) = Cardinality(Range(get_peers_task.body))
          /\ \/ get_peers_task.body = << >>
             \/ \E w \in writes[get_peers_task.chain_id] :
                    Range(get_peers_task.body) = Strings(w)

\* A request fetched {P1, P2}, the entry was replaced by {LO} before the
\* answer was built, and the answer lists P1 and P2.
C10_Witness ==
    /\ get_peers_task.pc = "responded"
    /\ Range(get_peers_task.body) = Strings({P1, P2})
    /\ fetch_exposed_peers(book, get_peers_task.chain_id) = {LO}

(***************************************************************************)
(* Properties of the Tracker Query API                                     *)
(***************************************************************************)
\* The peer set the latest report for a chain_id left, as seen by a request.
Reported(seen) == IF seen.some THEN seen.value ELSE {}

\* C11: get_peers always answers, with status 200 and the peer list the
\* chain_id had when it was read, each address once; the list is empty for a
\* chain_id never reported or last reported with no peers.
C11_GetPeersNeverFails ==
    /\ get_peers_task.pc = "fetched" => ENABLED get_peers_respond
    /\ get_peers_task.pc = "responded" =>
          /\ get_peers_task.status = StatusOK
          /\ Range(get_peers_task.body) = Strings(Reported(get_peers_task.seen))
          /\ Len(get_peers_task.body) = Cardinality(Reported(get_peers_task.seen))
          /\ (~get_peers_task.seen.some \/ get_peers_task.seen = Some({}))
                => get_peers_task.body = << >>

\* A chain_id first reported with peers and then with none is answered with
\* 200 and the empty list.
C11_Witness ==
    /\ get_peers_task.pc = "responded"
    /\ get_peers_task.seen = Some({})
    /\ {P1, P2} \in writes[get_peers_task.chain_id]
    /\ get_peers_task.status = StatusOK
    /\ get_peers_task.body = << >>

\* C12: get_chain_spec answers 200 with exactly the stored blob when the store
\* holds one for the chain_id, 404 with an empty body when it holds none, and
\* nothing else.
C12_GetChainSpecTwoOutcomes ==
    /\ [](chain_spec_response.status \in {0, StatusOK, StatusNotFound})
    /\ [][chain_spec_response' # chain_spec_response =>
            IF chain_spec_response'.chain_id \in DOMAIN list
            THEN /\ chain_spec_response'.status = StatusOK
                 /\ chain_spec_response'.body = list[chain_spec_response'.chain_id].bytes
            ELSE /\ chain_spec_response'.status = StatusNotFound
                 /\ chain_spec_response'.body = << >>]_vars

\* A stored empty blob is answered with 200 and an empty body: the hit is
\* told from a miss by the status alone.
C12_Witness ==
    /\ chain_spec_response.status = StatusOK
    /\ chain_spec_response.body = << >>
    /\ chain_spec_response.chain_id = LeafchainId
    /\ list[LeafchainId] = ChainSpec(<< >>)

\* C13: a step of get_peers or get_chain_spec leaves the PeerAddressBook and
\* the ChainSpecStore as they were (no entry appears for an unknown chain_id),
\* and a request repeated with no write in between gets the same peer set,
\* respectively the same response.
C13_QueriesAreReads ==
    [][/\ (get_peers_task' # get_peers_task \/ chain_spec_response' # chain_spec_response)
          => (book' = book /\ list' = list)
       /\ (/\ get_peers_task.pc = "responded"
           /\ get_peers_task'.pc = "fetched"
           /\ get_peers_task'.chain_id = get_peers_task.chain_id
           /\ last_write[get_peers_task.chain_id] = get_peers_task.seen)
          => get_peers_task'.peers = get_peers_task.peers
       /\ (/\ chain_spec_response.status # 0
           /\ chain_spec_response'.chain_id = chain_spec_response.chain_id
           /\ get(list, chain_spec_response.chain_id) = chain_spec_response.seen)
          => chain_spec_response' = chain_spec_response]_vars

\* Both endpoints were asked for the unknown chain_id while other chains have
\* entries, and neither registry has an entry for it.
C13_Witness ==
    /\ get_peers_task.pc = "responded"
    /\ get_peers_task.chain_id = UnknownId
    /\ chain_spec_response.status = StatusNotFound
    /\ chain_spec_response.chain_id = UnknownId
    /\ DOMAIN book = ChainIds
    /\ DOMAIN list = ChainIds

(***************************************************************************)
(* Properties of the NetworkKeeper                                         *)
(***************************************************************************)
\* The chain_id the configuration gives the keeper of a layer.
ConfiguredChainId(layer) ==
    IF layer = "Rootchain" THEN RootchainId ELSE config.leafchain_endpoint.value

ConfiguredLayers ==
    {"Rootchain"} \cup (IF config.leafchain_endpoint.some THEN {"Leafchain"} ELSE {})

\* C14: after a successful execute() the set stored for the keeper's chain_id
\* is, with allow_loopback_ip false, exactly the addresses of the raw list
\* that are not loopback, and with allow_loopback_ip true, exactly the
\* addresses of the raw list.
C14_ReportedSetIsFilteredRawList ==
    \A l \in ConfiguredLayers :
        last_result[l] = "Ok" =>
            /\ last_poll[l].raw.some
            /\ last_write[ConfiguredChainId(l)].some
            /\ LET raw == Range(last_poll[l].raw.value)
                   reported == last_write[ConfiguredChainId(l)].value
               IN  IF config.allow_loopback_ip
                   THEN reported = raw
                   ELSE \A a \in Peers :
                            a \in reported <=> (a \in raw /\ ~is_loopback(a))

\* Loopback not allowed, the node answered <<LO, P1, P1>>, and {P1} was stored.
C14_Witness ==
    /\ ~config.allow_loopback_ip
    /\ last_result["Rootchain"] = "Ok"
    /\ last_poll["Rootchain"].raw = Some(<<LO, P1, P1>>)
    /\ fetch_exposed_peers(book, RootchainId) = {P1}

\* The peer set the keeper of a layer reports for the raw list of its latest
\* poll.
FilteredOfLastPoll(l) ==
    filter_peers(last_poll[l].raw.value, config.allow_loopback_ip)

\* C15 as stated: every execute() that obtained the node's peer list sent a
\* report, and when the filtered set was empty the entry of the chain_id is
\* afterwards the empty set written by a report.
C15_AsStated ==
    \A l \in ConfiguredLayers :
        last_poll[l].raw.some =>
            /\ last_poll[l].reports = 1
            /\ FilteredOfLastPoll(l) = {} =>
                  /\ last_write[ConfiguredChainId(l)] = Some({})
                  /\ fetch_exposed_peers(book, ConfiguredChainId(l)) = {}

\* C15, amended: every execute() that obtained the node's peer list made a
\* report attempt, also for an empty filtered set; and when the call
\* succeeded with an empty filtered set, the entry of the chain_id is the
\* empty set written by that report.
C15_EmptySetIsReported ==
    \A l \in ConfiguredLayers :
        /\ last_poll[l].raw.some => last_poll[l].reports = 1
        /\ (last_result[l] = "Ok" /\ FilteredOfLastPoll(l) = {}) =>
              /\ last_write[ConfiguredChainId(l)] = Some({})
              /\ ConfiguredChainId(l) \in DOMAIN book
              /\ book[ConfiguredChainId(l)] = {}

\* The rootchain entry held {P1, P2} and a later successful poll with no
\* peers replaced it by the empty set.
C15_Witness ==
    /\ {P1, P2} \in writes[RootchainId]
    /\ last_result["Rootchain"] = "Ok"
    /\ last_poll["Rootchain"] = Poll(Some(<< >>), 0, 1, 1)
    /\ RootchainId \in DOMAIN book
    /\ book[RootchainId] = {}

\* C16: one execute() call makes at most one connection attempt, one
\* peer-list request and one report attempt, and none after the step that
\* failed; a keeper is called at most once per cycle, the rootchain keeper
\* only when a cycle starts and the leafchain keeper only when the rootchain
\* call of the cycle returns.
C16_NoRetryWithinACycle ==
    /\ [](\A l \in BlockchainLayer :
            /\ last_poll[l].connect <= 1
            /\ last_poll[l].rpc <= 1
            /\ last_poll[l].reports <= 1
            /\ last_result[l] = "ConnectNodeError" =>
                  last_poll[l] = Poll(None, 1, 0, 0)
            /\ last_result[l] = "RpcError" =>
                  (last_poll[l].rpc = 1 /\ last_poll[l].reports = 0)
            /\ last_result[l] = "ReportError" => last_poll[l].reports = 1
            /\ executes[l] <= cycles)
    /\ [][/\ executes'["Rootchain"] # executes["Rootchain"] =>
                (executes'["Rootchain"] = executes["Rootchain"] + 1 /\ cycles' = cycles + 1)
          /\ executes'["Leafchain"] # executes["Leafchain"] =>
                (executes'["Leafchain"] = executes["Leafchain"] + 1 /\ pc = "rootchain"
                 /\ cycles' = cycles)]_vars

\* The rootchain report failed in the first cycle and the rootchain keeper
\* is called again in the second cycle only.
C16_Witness ==
    /\ cycles = 2
    /\ pc = "rootchain"
    /\ executes["Rootchain"] = 2
    /\ last_result["Rootchain"] = "ReportError"
    /\ last_poll["Rootchain"].reports = 1

(***************************************************************************)
(* Properties of the report service                                        *)
(***************************************************************************)
\* C17: a received report (chain_id, layer, peers) leaves the registry as
\* upsert(chain_id, peers) does: the entry of chain_id is exactly peers and
\* every other entry, present or absent, is as before; the layer plays no
\* part.
C17_ReportIsUpsert ==
    [][(book' # book \/ last_report' # last_report) =>
         /\ last_report'.some
         /\ LET r == last_report'.value
            IN  /\ r.layer \in BlockchainLayer
                /\ DOMAIN book' = DOMAIN book \cup {r.chain_id}
                /\ book'[r.chain_id] = r.peers
                /\ \A c \in DOMAIN book \ {r.chain_id} : book'[c] = book[c]]_vars

\* A report labelled Leafchain for the rootchain's chain_id replaced the
\* entry {P1, P2} by {LO}, the leafchain's entry staying {P1, P2}.
C17_Witness ==
    /\ last_report = Some([chain_id |-> RootchainId, layer |-> "Leafchain", peers |-> {LO}])
    /\ {P1, P2} \in writes[RootchainId]
    /\ DOMAIN book = ChainIds
    /\ book[RootchainId] = {LO}
    /\ book[LeafchainId] = {P1, P2}

(***************************************************************************)
(* End to end                                                              *)
(***************************************************************************)
\* The first cycle's rootchain poll has returned Ok for a node whose peers
\* are P1 and P2, and no second cycle has started.
FirstCycleReportedP1P2 ==
    /\ cycles = 1
    /\ pc \in {"leafchain", "select", "done"}
    /\ last_result["Rootchain"] = "Ok"
    /\ last_poll["Rootchain"].raw.some
    /\ Range(last_poll["Rootchain"].raw.value) = {P1, P2}

\* C18: once the first cycle's rootchain poll and report have succeeded with
\* node peers {P1, P2}, the registry entry of the rootchain's chain_id is
\* {P1, P2} until the next cycle; and with the shutdown signal fired the
\* serve loop returns.
C18_EndToEnd ==
    /\ [](FirstCycleReportedP1P2 =>
            /\ RootchainId \in DOMAIN book
            /\ book[RootchainId] = {P1, P2}
            /\ fetch_exposed_peers(book, RootchainId) = {P1, P2})
    /\ ((FirstCycleReportedP1P2 /\ shutdown_signal) ~> pc = "done")

\* The loop has returned on a signal fired after the first cycle, with the
\* rootchain entry {P1, P2} in the registry.
C18_Witness ==
    /\ FirstCycleReportedP1P2
    /\ pc = "done"
    /\ at_shutdown.pc = "select"
    /\ at_shutdown.cycles = 1
    /\ book[RootchainId] = {P1, P2}

(***************************************************************************)
(* Properties of the Sidecar loop, continued                               *)
(***************************************************************************)
\* C19: while an execute() call never returns, the loop stays in that call:
\* no keeper call and no cycle starts, and the loop is not left, whether or
\* not the shutdown signal fires.
C19_HungPollBlocksLoop ==
    /\ [](hung => (pc \in {"rootchain", "leafchain"} /\ Cardinality(running) = 1))
    /\ [][hung => (/\ hung'
                   /\ pc' = pc
                   /\ running' = running
                   /\ cycles' = cycles
                   /\ executes' = executes)]_vars

\* The signal fired after the rootchain call had hung, with the leafchain
\* keeper still to be called, and the loop is still in that call.
C19_Witness ==
    /\ hung
    /\ pc = "rootchain"
    /\ leafchain_network_keeper.some
    /\ shutdown_signal
    /\ at_shutdown.hung
    /\ executes["Leafchain"] = 0

\* C20: the rootchain keeper has been called once for every cycle started;
\* with a leafchain endpoint configured the leafchain keeper has been called
\* once for every cycle whose rootchain call has returned, and without one
\* it is never called; so leafchain calls never outnumber rootchain calls.
C20_CallsPerCycle ==
    /\ executes["Rootchain"] = cycles
    /\ executes["Leafchain"] <= executes["Rootchain"]
    /\ IF config.leafchain_endpoint.some
       THEN executes["Leafchain"] = IF pc = "rootchain" THEN cycles - 1 ELSE cycles
       ELSE executes["Leafchain"] = 0 /\ pc # "leafchain"
    /\ (tracker_client = "connected") =>
          (leafchain_network_keeper.some <=> config.leafchain_endpoint.some)

\* In the second cycle the rootchain call is in flight and the leafchain
\* keeper has been called once so far.
C20_Witness ==
    /\ config.leafchain_endpoint.some
    /\ pc = "rootchain"
    /\ cycles = 2
    /\ executes["Rootchain"] = 2
    /\ executes["Leafchain"] = 1

(***************************************************************************)
(* Writers of different chains                                             *)
(***************************************************************************)
\* The entry of chain_id in the registry b, None when there is none.
Entry(b, chain_id) == IF chain_id \in DOMAIN b THEN Some(b[chain_id]) ELSE None

\* The Sidecar's call for a layer returns in this step.
Returns(layer) ==
    IF layer = "Rootchain"
    THEN pc = "rootchain" /\ pc' # "rootchain"
    ELSE pc = "leafchain" /\ pc' # "leafchain"

\* C21: a step that changes the registry entry of one chain_id is a write
\* for that chain_id and leaves the entry of every other chain_id, present or
\* absent, as it was, whatever the order in which this Sidecar and other
\* sidecars write; and with the two configured chain_ids different, the
\* Sidecar's rootchain call never changes the entry of its leafchain's
\* chain_id, nor its leafchain call the entry of the rootchain's chain_id.
C21_WritesLeaveOtherChainsAlone ==
    [][/\ \A c \in QueryIds :
            Entry(book', c) # Entry(book, c) =>
                /\ last_report'.some
                /\ last_report'.value.chain_id = c
                /\ Entry(book', c) = Some(last_report'.value.peers)
                /\ \A d \in QueryIds \ {c} : Entry(book', d) = Entry(book, d)
       /\ \A l \in ConfiguredLayers, m \in ConfiguredLayers :
            (Returns(l) /\ ConfiguredChainId(l) # ConfiguredChainId(m)) =>
                Entry(book', ConfiguredChainId(m)) = Entry(book, ConfiguredChainId(m))]_vars

\* The Sidecar's leafchain report {P1, P2} has just been stored while the
\* rootchain's entry held {LO}, written by another sidecar over the
\* Sidecar's own earlier {P1, P2}; that entry is still {LO}.
C21_Witness ==
    /\ pc = "select"
    /\ cycles = 1
    /\ last_result["Leafchain"] = "Ok"
    /\ last_report = Some([chain_id |-> LeafchainId, layer |-> "Leafchain",
                            peers |-> {P1, P2}])
    /\ writes[RootchainId] = {{P1, P2}, {LO}}
    /\ last_write[RootchainId] = Some({LO})
    /\ Entry(book, RootchainId) = Some({LO})
    /\ Entry(book, LeafchainId) = Some({P1, P2})

====
